---- MODULE Spec2Model ----
(***************************************************************************)
(* A model of python/pose/pose_demo.py: the command predict_pose_from      *)
(* (input resolution, output naming, the per-image loop, the 14 -> 16      *)
(* heatmap channel remap, the heatmap/keypoint/preview writes) and the     *)
(* disc rasterizer _npcircle.                                              *)
(*                                                                         *)
(* Paths are sequences of one-character strings, so that the os.path       *)
(* functions are modelled by what they do to the characters.  Arrays are   *)
(* records [shape, data] with 0-based index tuples, as in numpy.           *)
(***************************************************************************)
EXTENDS Integers, Sequences, FiniteSets, TLC

(***************************************************************************)
(* Generic helpers.                                                        *)
(***************************************************************************)
Max(a, b) == IF a >= b THEN a ELSE b
Min(a, b) == IF a <= b THEN a ELSE b

\* None where a path is expected, where an array is, where a pose is.
None == <<"None">>
NoArray == [shape |-> <<0, 0, 0>>, data |-> <<>>]
NoPose == <<>>

\* s[a..b], the empty sequence when a > b.
Sub(s, a, b) == IF a > b THEN <<>> ELSE SubSeq(s, a, b)

StartsWith(s, pre) == Len(s) >= Len(pre) /\ Sub(s, 1, Len(pre)) = pre
EndsWith(s, suf) == Len(s) >= Len(suf) /\ Sub(s, Len(s) - Len(suf) + 1, Len(s)) = suf

\* str.rfind(c) + 1: the 1-based position of the last c in s, 0 when absent.
RFind(s, c) == LET hits == {i \in 1..Len(s) : s[i] = c}
               IN IF hits = {} THEN 0 ELSE CHOOSE i \in hits : \A j \in hits : j <= i

\* str.rstrip('/').
RECURSIVE RStripSlash(_)
RStripSlash(s) == IF s # <<>> /\ s[Len(s)] = "/" THEN RStripSlash(Sub(s, 1, Len(s) - 1)) ELSE s

AllSlashes(s) == \A i \in 1..Len(s) : s[i] = "/"

(***************************************************************************)
(* posixpath, as the script uses it.                                       *)
(***************************************************************************)
\* os.path.dirname(p)
Dirname(p) == LET head == Sub(p, 1, RFind(p, "/"))
              IN IF head # <<>> /\ ~AllSlashes(head) THEN RStripSlash(head) ELSE head

\* os.path.basename(p)
Basename(p) == Sub(p, RFind(p, "/") + 1, Len(p))

\* os.path.splitext(p): the extension starts at the last dot of the last
\* component, unless that component has only dots before it.
SplitextAt(p) == LET sepIndex == RFind(p, "/")
                     dotIndex == RFind(p, ".")
                 IN IF dotIndex > sepIndex
                       /\ \E f \in (sepIndex + 1)..(dotIndex - 1) : p[f] # "."
                    THEN dotIndex ELSE Len(p) + 1
SplitextRoot(p) == Sub(p, 1, SplitextAt(p) - 1)
SplitextExt(p) == Sub(p, SplitextAt(p), Len(p))

\* os.path.join(a, b)
Join(a, b) == IF StartsWith(b, <<"/">>) THEN b
              ELSE IF a = <<>> \/ EndsWith(a, <<"/">>) THEN a \o b
              ELSE a \o <<"/">> \o b

\* The directory a path names, whatever its spelling of the trailing slash.
NormDir(p) == IF p # <<>> /\ AllSlashes(p) THEN <<"/">> ELSE RStripSlash(p)

(***************************************************************************)
(* numpy arrays of three axes: shape <<d0, d1, d2>> and the values, axis   *)
(* by axis.  At(a, i, j, k) is a[i, j, k], with numpy's 0-based indices.   *)
(***************************************************************************)
MkArray(shape, F(_, _, _)) ==
    [shape |-> shape,
     data |-> [i \in 1..shape[1] |-> [j \in 1..shape[2] |-> [k \in 1..shape[3] |->
                  F(i - 1, j - 1, k - 1)]]]]

At(a, i, j, k) == a.data[i + 1][j + 1][k + 1]

\* The indices of an array.
Idx3(shape) == (0..(shape[1] - 1)) \X (0..(shape[2] - 1)) \X (0..(shape[3] - 1))

\* numpy.zeros(shape)
Zeros(shape) == MkArray(shape, LAMBDA i, j, k : 0)

\* a[:, :, ::-1]
ReverseLastAxis(a) == MkArray(a.shape, LAMBDA i, j, k : At(a, i, j, a.shape[3] - 1 - k))

\* numpy.swapaxes(a, 0, 2)
SwapAxes02(a) == MkArray(<<a.shape[3], a.shape[2], a.shape[1]>>, LAMBDA i, j, k : At(a, k, j, i))

\* a[:, :, c], a plane: Plane(a, c)[i + 1][j + 1] is a[i, j, c]
Plane(a, c) == [i \in 1..a.shape[1] |-> [j \in 1..a.shape[2] |-> At(a, i - 1, j - 1, c)]]

\* a[:, :, c] = pl
SetPlane(a, c, pl) ==
    MkArray(a.shape, LAMBDA i, j, k : IF k = c THEN pl[i + 1][j + 1] ELSE At(a, i, j, k))

(***************************************************************************)
(* The channel remap of predict_pose_from.  Heat values are held in        *)
(* quarters of the estimator's grid step (a grid value v is stored as      *)
(* 4 * v), so that the two divisions of the code are exact, as they are    *)
(* in float32 on such values.                                              *)
(***************************************************************************)
\* A slip in the channels of the hips: the mean of channels 3 and 4.
PelvisOfWrongChannels(unary_maps) ==
    [i \in 1..unary_maps.shape[1] |-> [j \in 1..unary_maps.shape[2] |->
        (Plane(unary_maps, 3)[i][j] + Plane(unary_maps, 4)[i][j]) \div 2]]

\* pelvis = (unary_maps[:,:,2] + unary_maps[:,:,3])/2.
Pelvis(unary_maps) ==
    [i \in 1..unary_maps.shape[1] |-> [j \in 1..unary_maps.shape[2] |->
        (Plane(unary_maps, 2)[i][j] + Plane(unary_maps, 3)[i][j]) \div 2]]

\* thorax = (2. * pelvis + unary_maps[:,:,12] + unary_maps[:,:,13])/4.
Thorax(unary_maps) ==
    [i \in 1..unary_maps.shape[1] |-> [j \in 1..unary_maps.shape[2] |->
        (2 * Pelvis(unary_maps)[i][j] + Plane(unary_maps, 12)[i][j] + Plane(unary_maps, 13)[i][j]) \div 4]]

\* for j in range(lo, hi): um2[:,:,j] = unary_maps[:,:,j-shift]
RECURSIVE CopyChannels(_, _, _, _, _)
CopyChannels(um2, unary_maps, j, hi, shift) ==
    IF j >= hi THEN um2
    ELSE CopyChannels(SetPlane(um2, j, Plane(unary_maps, j - shift)), unary_maps, j + 1, hi, shift)

\* The highest channel index the remap reads: unary_maps[:,:,13].
RemapReads(unary_maps) == unary_maps.shape[3] > 13

\* Lines 146-162: the 16-channel stack um2 built from unary_maps.  Reading a
\* channel the stack does not have raises IndexError.
Remap(unary_maps) ==
    IF ~RemapReads(unary_maps) THEN [err |-> TRUE, um2 |-> NoArray]
    ELSE LET z  == Zeros(<<unary_maps.shape[1], unary_maps.shape[2], 16>>)
             a  == CopyChannels(z, unary_maps, 0, 6, 0)
             b  == SetPlane(a, 6, Pelvis(unary_maps))
             c  == SetPlane(b, 7, Thorax(unary_maps))
             d  == CopyChannels(c, unary_maps, 8, 16, 2)
         IN [err |-> FALSE, um2 |-> d]

(***************************************************************************)
(* _npcircle.  Coordinates, radius and transparency arrive as floats; the  *)
(* model holds them in halves (7 is 3.5).                                  *)
(***************************************************************************)
\* int(v) for v given in halves: truncation towards zero.
IntOf(v) == IF v >= 0 THEN v \div 2 ELSE -((-v) \div 2)

\* slice(a, b).indices(n): where a slice bound lands on an axis of length n.
SliceBound(a, n) == IF a < 0 THEN Max(a + n, 0) ELSE Min(a, n)
SliceLen(a, b, n) == Max(0, SliceBound(b, n) - SliceBound(a, n))

\* numpy.ogrid[-radius: radius]: the offsets the mask covers on one axis.
MaskOffsets(radius) == (-radius)..(radius - 1)

\* index = x**2 + y**2 <= radius**2
InMask(x, y, radius) ==
    /\ x \in MaskOffsets(radius)
    /\ y \in MaskOffsets(radius)
    /\ x * x + y * y <= radius * radius

\* (existing * transparency + color * (1.0 - transparency)).astype('uint8')
Blend(existing, col, transparency) == (existing * transparency + col * (2 - transparency)) \div 2

\* The boolean mask has shape (2*radius, 2*radius); indexing the sliced view
\* with it raises IndexError unless the view has that shape, and the color
\* vector must broadcast along the last axis.
NpcircleRaises(image, cx, cy, radius, color) ==
    LET r == IntOf(radius)
        x == IntOf(cx)
        y == IntOf(cy)
        n == Cardinality(MaskOffsets(r))
    IN \/ SliceLen(y - r, y + r, image.shape[1]) # n
       \/ SliceLen(x - r, x + r, image.shape[2]) # n
       \/ image.shape[3] # Len(color)

\* _npcircle(image, cx, cy, radius, color, transparency): the image after
\* the call, and whether the call raised (the image is then untouched).
Npcircle(image, cx, cy, radius, color, transparency) ==
    LET r  == IntOf(radius)
        x  == IntOf(cx)
        y  == IntOf(cy)
        y0 == SliceBound(y - r, image.shape[1])
        x0 == SliceBound(x - r, image.shape[2])
    IN IF NpcircleRaises(image, cx, cy, radius, color)
       THEN [err |-> TRUE, image |-> image]
       ELSE [err |-> FALSE,
             image |-> MkArray(image.shape, LAMBDA i, j, k :
                           IF InMask(j - x0 - r, i - y0 - r, r)
                           THEN Blend(At(image, i, j, k), color[k + 1], transparency)
                           ELSE At(image, i, j, k))]

(***************************************************************************)
(* The literals of the output names.                                       *)
(***************************************************************************)
PoseNpz == <<"_", "p", "o", "s", "e", ".", "n", "p", "z">>
DotH5 == <<".", "h", "5">>
VisPng == <<"_", "v", "i", "s", ".", "p", "n", "g">>
DotNpz == <<".", "n", "p", "z">>

\* colors, the palette of lines 177-179
Colors == << <<255, 0, 0>>, <<0, 255, 0>>, <<0, 0, 255>>, <<0, 245, 255>>, <<255, 131, 250>>, <<255, 255, 0>>,
             <<255, 0, 0>>, <<0, 255, 0>>, <<0, 0, 255>>, <<0, 245, 255>>, <<255, 131, 250>>, <<255, 255, 0>>,
             <<0, 0, 0>>, <<255, 255, 255>> >>

\* The radius predict_pose_from passes to _npcircle.
Radius == 8

(***************************************************************************)
(* Bounds of the model.                                                    *)
(***************************************************************************)
\* Files a directory holds at most.
MaxFiles == 2
\* Height and width of the images read.
ImgH == 17
ImgW == 18
\* Height and width of the heatmaps the estimator returns to a run.
HmH == 1
HmW == 2
\* Height and width of the stacks the remap is studied on, and the largest
\* value (in grid steps) added to one of their entries.
RmH == 1
RmW == 2
MaxAmp == 1
\* Height and width of the images _npcircle is studied on, and the largest
\* radius drawn there.
CvH == 6
CvW == 7
MaxRadius == 2

(***************************************************************************)
(* The world of a run: directories, the files of the input directory, the  *)
(* command line.                                                           *)
(***************************************************************************)
FileNames == { <<"a", ".", "p">>, <<"a", ".", "j">>, <<"b", ".", "p">> }

\* IMAGE_NAME: a directory (with or without a trailing slash, relative or
\* absolute) or a single existing file.
DirArgs == { <<"d">>, <<"d", "/">>, <<"/", "d">> }
FileArgs == { <<"a", ".", "p">>, <<"d", "/", "a", ".", "p">>, <<"/", "d", "/", "a", ".", "p">> }

\* --out_name
OutArgs == { None, <<"o">>, <<"o", "/">>, <<"x", "/", "o">> }

\* --folder_image_suffix
Suffixes == { <<".", "p">>, <<>> }

\* Directories that always exist: the working directory, the root, d and /d.
BaseDirs == { <<>>, <<"/">>, <<"d">>, <<"/", "d">> }
\* Directories that may exist as well.
MoreDirs == { <<"o">>, <<"d", "/", "d">> }

\* What imread returns: an RGB file as height x width x 3, a grayscale file
\* as height x width (held with a last axis of length 1).  The value of a
\* pixel tells its place in the file.
Pixel(y, x, c) == (16 * y + 3 * x + 50 * c) % 256
FileRGB == MkArray(<<ImgH, ImgW, 3>>, Pixel)
FileGray == MkArray(<<ImgH, ImgW, 1>>, LAMBDA y, x, c : Pixel(y, x, 0))

\* scipy.misc.imread of a file that decodes to ndim axes
Imread(n) == IF n = 2 THEN FileGray ELSE FileRGB

\* numpy.dstack((image, image, image)) of a 2-D image
Dstack3(g) == MkArray(<<g.shape[1], g.shape[2], 3>>, LAMBDA i, j, k : At(g, i, j, 0))

\* Lines 123-128: the image after loading.
LoadImage(file, ndim) == IF ndim = 2 THEN Dstack3(file) ELSE ReverseLastAxis(file)

\* What the estimator may return.  pose is 2 x 14 (row 0 the x, row 1 the y,
\* in halves of a pixel): the joints in a row starting at a base point.
PoseAt(bx, by) == << [j \in 0..13 |-> bx + j], [j \in 0..13 |-> by] >>
Poses == { PoseAt(2 * Radius, 2 * Radius + 1) }

\* unary_maps with n channels: every value differs, so a channel that lands
\* in the wrong place shows.
HeatValue(y, x, c) == 4 * (1 + c + 20 * x + 60 * y)
HeatRamp(h, w, n) == MkArray(<<h, w, n>>, HeatValue)
ChannelCounts == {13, 14, 15}

(***************************************************************************)
(* State of a run of predict_pose_from.                                    *)
(***************************************************************************)
VARIABLES
    pc,                 \* where the run is
    out_name_provided,  \* --out_name, None when absent
    visualize,          \* --visualize
    folder_image_suffix,
    dirs,               \* the directories that exist
    listing,            \* the file names in the input directory
    process_folder,
    images,             \* the inputs of the run, in glob's order
    idx,                \* images handled so far
    image_name,         \* the argument, then the loop variable
    out_name,
    fname,              \* the heatmap bundle's path
    ndim,               \* the axes of what imread returned for image_name
    image,
    pose,
    unary_maps,
    um2,
    visim,              \* the array handed to _npcircle
    written,            \* the files written: kind, path, source image
    log,                \* the steps completed, each with its image's number
    err                 \* the error that ended the run, "" without

(***************************************************************************)
(* State of one application of the remap, and of one call of _npcircle,    *)
(* each on its own.                                                        *)
(***************************************************************************)
VARIABLES
    rpc,                \* "idle", "in" before the remap, "out" after
    native,             \* the stack given to the remap
    remapped,           \* what the remap gave: err, um2
    cpc,                \* "idle", "ready" before the call, "drawn" after
    canvas,             \* the image given to _npcircle
    call,               \* the other arguments of the call
    result              \* what the call gave: err, image

vars == <<pc, out_name_provided, visualize, folder_image_suffix, dirs, listing,
          process_folder, images, idx, image_name, out_name, fname, ndim, image,
          pose, unary_maps, um2, visim, written, log, err,
          rpc, native, remapped, cpc, canvas, call, result>>

\* Variables of the studies of one function.
study == <<rpc, native, remapped, cpc, canvas, call, result>>

\* Variables of the command line and the world, fixed once the loop runs.
setup == <<out_name_provided, visualize, folder_image_suffix, listing, process_folder, images>>
\* Variables of the image at hand.
perImage == <<ndim, image, pose, unary_maps, um2, visim>>

\* os.path.isdir(p)
IsDir(p) == NormDir(p) \in dirs

\* The entries of a directory: its files and its subdirectories.
Entries(folder_name) ==
    listing \cup { Basename(d) : d \in { e \in dirs : e # <<>> /\ ~AllSlashes(e)
                                                   /\ Dirname(e) = NormDir(folder_name) } }

\* glob.glob(os.path.join(folder_name, '*' + suffix)): the entries of the
\* directory that end with the suffix and do not start with a dot, each
\* joined to the directory part of the pattern.
GlobMatches(folder_name, suffix) ==
    LET pattern == Join(folder_name, <<"*">> \o suffix)
    IN { Join(Dirname(pattern), n) :
           n \in { m \in Entries(folder_name) : EndsWith(m, suffix) /\ m[1] # "." } }

\* The orders glob may return a set of paths in.
Orders(S) == { q \in [1..Cardinality(S) -> S] : \A i, j \in 1..Cardinality(S) : i # j => q[i] # q[j] }

NoCall == [cx |-> 0, cy |-> 0, radius |-> 0, color |-> <<>>, transparency |-> 0]
NoResult == [err |-> FALSE, image |-> NoArray]
NoRemap == [err |-> FALSE, um2 |-> NoArray]

StudyIdle ==
    /\ rpc = "idle" /\ native = NoArray /\ remapped = NoRemap
    /\ cpc = "idle" /\ canvas = NoArray /\ call = NoCall /\ result = NoResult

Init ==
    /\ pc = "start"
    /\ image_name \in DirArgs \cup FileArgs
    /\ out_name_provided \in OutArgs
    /\ out_name = out_name_provided
    /\ visualize \in BOOLEAN
    /\ folder_image_suffix \in Suffixes
    /\ dirs \in { BaseDirs \cup more : more \in SUBSET MoreDirs }
    /\ listing \in { l \in SUBSET FileNames : Cardinality(l) <= MaxFiles }
    /\ image_name \in FileArgs => listing = { Basename(image_name) }
    /\ process_folder = FALSE
    /\ images = <<>>
    /\ idx = 0
    /\ fname = None
    /\ ndim = 0 /\ image = NoArray /\ pose = NoPose /\ unary_maps = NoArray
    /\ um2 = NoArray /\ visim = NoArray
    /\ written = {}
    /\ log = <<>>
    /\ err = ""
    /\ StudyIdle

\* os.path.exists(p), for the paths a run asks about
Exists(p) == NormDir(p) \in dirs

\* os.mkdir(p) without the parent directory raises.
MkdirRaises(p) == Dirname(NormDir(p)) \notin dirs

\* Creating a file raises when its directory does not exist.
CreateRaises(p) == NormDir(Dirname(p)) \notin dirs

\* A slip in the folder rule: the image's whole path under the output
\* directory, not its basename.
OutNameForWholePath(img, provided, folderRun, current) ==
    IF provided = None THEN img \o PoseNpz
    ELSE IF folderRun THEN Join(provided, img \o PoseNpz)
    ELSE current

\* Lines 116-120: out_name for the image at hand.
OutNameFor(img, provided, folderRun, current) ==
    IF provided = None THEN img \o PoseNpz
    ELSE IF folderRun THEN Join(provided, Basename(img) \o PoseNpz)
    ELSE current

\* numpy.savez_compressed(file, ...) appends .npz to a name without it.
SavezPath(file) == IF EndsWith(file, DotNpz) THEN file ELSE file \o DotNpz

\* Line 133: fname
BundlePath(img) == Join(Dirname(img), SplitextRoot(img) \o DotH5)

\* Line 176: visim = image[:, :, ::-1].copy()
VisimOf(img) == ReverseLastAxis(img)

\* Lines 180-186: the discs of the 14 joints, in order, until one raises.
RECURSIVE DrawJoints(_, _, _)
DrawJoints(im, ps, p_idx) ==
    IF p_idx >= 14 THEN [err |-> FALSE, image |-> im]
    ELSE LET r == Npcircle(im, ps[1][p_idx], ps[2][p_idx], 2 * Radius, Colors[p_idx + 1], 0)
         IN IF r.err THEN r ELSE DrawJoints(r.image, ps, p_idx + 1)

\* A slip that swallows the exception: the loop goes on.
RaiseSwallowed(what) ==
    /\ pc' = "for"
    /\ err' = what

\* An exception leaves predict_pose_from: the run is over.
Raise(what) ==
    /\ pc' = "failed"
    /\ err' = what

Done(step) == log' = Append(log, <<step, idx + 1>>)

\* Lines 92-111: the inputs of the run and the output directory.
Resolve ==
    /\ pc = "start"
    /\ IF IsDir(image_name)
       THEN /\ images' \in Orders(GlobMatches(image_name, folder_image_suffix))
            /\ process_folder' = TRUE
       ELSE /\ images' = <<image_name>>
            /\ process_folder' = FALSE
    /\ IF process_folder' /\ out_name # None /\ ~Exists(out_name)
       THEN IF MkdirRaises(out_name)
            THEN Raise("mkdir") /\ UNCHANGED dirs
            ELSE /\ dirs' = dirs \cup {NormDir(out_name)}
                 /\ pc' = "for"
                 /\ UNCHANGED err
       ELSE pc' = "for" /\ UNCHANGED <<dirs, err>>
    /\ UNCHANGED <<out_name_provided, visualize, folder_image_suffix, listing, idx,
                   image_name, out_name, fname, written, log>>
    /\ UNCHANGED perImage
    /\ UNCHANGED study

\* Lines 112-128: the next image: its output name, and the image loaded.
\* imread raises on an entry that is a directory.
BeginImage ==
    /\ pc = "for"
    /\ idx < Len(images)
    /\ image_name' = images[idx + 1]
    /\ out_name' = OutNameFor(image_name', out_name_provided, process_folder, out_name)
    /\ IF IsDir(image_name')
       THEN Raise("imread") /\ UNCHANGED <<ndim, image, log>>
       ELSE /\ ndim' \in {2, 3}
            /\ image' = LoadImage(Imread(ndim'), ndim')
            /\ Done("load")
            /\ pc' = "estimate"
            /\ UNCHANGED err
    /\ UNCHANGED <<setup, dirs, idx, fname, pose, unary_maps, um2, visim, written>>
    /\ UNCHANGED study

\* Line 129: the estimator returns.
Estimate ==
    /\ pc = "estimate"
    /\ pose' \in Poses
    /\ \E n \in ChannelCounts : unary_maps' = HeatRamp(HmH, HmW, n)
    /\ Done("estimate")
    /\ pc' = "savez"
    /\ UNCHANGED <<setup, dirs, idx, image_name, out_name, fname, ndim, image, um2, visim,
                   written, err>>
    /\ UNCHANGED study

\* Line 129: the estimator raises.
EstimateFails ==
    /\ pc = "estimate"
    /\ Raise("estimate_pose")
    /\ UNCHANGED <<setup, dirs, idx, image_name, out_name, fname, written, log>>
    /\ UNCHANGED perImage
    /\ UNCHANGED study

\* Line 130: the keypoint archive.
SavePose ==
    /\ pc = "savez"
    /\ IF CreateRaises(SavezPath(out_name))
       THEN Raise("savez") /\ UNCHANGED <<written, log>>
       ELSE /\ written' = written \cup
                    {[kind |-> "npz", path |-> SavezPath(out_name), src |-> image_name, complete |-> TRUE]}
            /\ Done("savez")
            /\ pc' = "h5"
            /\ UNCHANGED err
    /\ UNCHANGED <<setup, dirs, idx, image_name, out_name, fname>>
    /\ UNCHANGED perImage
    /\ UNCHANGED study

\* Line 130: the write fails (disk full, permission).
SavePoseFails ==
    /\ pc = "savez"
    /\ Raise("savez")
    /\ UNCHANGED <<setup, dirs, idx, image_name, out_name, fname, written, log>>
    /\ UNCHANGED perImage
    /\ UNCHANGED study

\* Lines 133-173: the heatmap bundle.  The file is created when it is opened,
\* before the remap; the two datasets are stored after it.
WriteBundle ==
    /\ pc = "h5"
    /\ fname' = BundlePath(image_name)
    /\ IF CreateRaises(fname')
       THEN /\ Raise("h5py.File")
            /\ UNCHANGED <<written, log, image, um2>>
       ELSE IF Remap(unary_maps).err
       THEN /\ Raise("IndexError")
            /\ written' = written \cup
                    {[kind |-> "h5", path |-> fname', src |-> image_name, complete |-> FALSE]}
            /\ UNCHANGED <<log, image, um2>>
       ELSE /\ um2' = SwapAxes02(Remap(unary_maps).um2)
            /\ image' = SwapAxes02(image)
            /\ written' = written \cup
                    {[kind |-> "h5", path |-> fname', src |-> image_name, complete |-> TRUE]}
            /\ Done("h5")
            /\ pc' = "vis"
            /\ UNCHANGED err
    /\ UNCHANGED <<setup, dirs, idx, image_name, out_name, ndim, pose, unary_maps, visim>>
    /\ UNCHANGED study

\* Lines 134-173: a write to the bundle fails.
WriteBundleFails ==
    /\ pc = "h5"
    /\ fname' = BundlePath(image_name)
    /\ Raise("h5py.File")
    /\ UNCHANGED <<setup, dirs, idx, image_name, out_name, written, log>>
    /\ UNCHANGED perImage
    /\ UNCHANGED study

\* Lines 175-188: the preview, when asked for; then the loop goes on.
Visualize ==
    /\ pc = "vis"
    /\ IF ~visualize
       THEN /\ idx' = idx + 1
            /\ pc' = "for"
            /\ UNCHANGED <<visim, written, log, err>>
       ELSE LET r == DrawJoints(VisimOf(image), pose, 0)
            IN /\ visim' = VisimOf(image)
               /\ IF r.err
                  THEN Raise("_npcircle") /\ UNCHANGED <<idx, written, log>>
                  ELSE IF CreateRaises(out_name \o VisPng)
                  THEN Raise("imsave") /\ UNCHANGED <<idx, written, log>>
                  ELSE /\ written' = written \cup
                               {[kind |-> "png", path |-> out_name \o VisPng, src |-> image_name,
                                 complete |-> TRUE]}
                       /\ Done("vis")
                       /\ idx' = idx + 1
                       /\ pc' = "for"
                       /\ UNCHANGED err
    /\ UNCHANGED <<setup, dirs, image_name, out_name, fname, ndim, image, pose, unary_maps, um2>>
    /\ UNCHANGED study

\* The loop has no image left: the command returns.
Finish ==
    /\ pc = "for"
    /\ idx = Len(images)
    /\ pc' = "done"
    /\ UNCHANGED <<setup, dirs, idx, image_name, out_name, fname, written, log, err>>
    /\ UNCHANGED perImage
    /\ UNCHANGED study

Next ==
    \/ Resolve
    \/ BeginImage
    \/ Estimate
    \/ EstimateFails
    \/ SavePose
    \/ SavePoseFails
    \/ WriteBundle
    \/ WriteBundleFails
    \/ Visualize
    \/ Finish

Spec == Init /\ [][Next]_vars

(***************************************************************************)
(* The remap on its own: a stack is chosen, the remap is applied.          *)
(***************************************************************************)
\* The stacks tried: nothing or a ramp, plus a value at one entry, plus one
\* grid step at an entry of the same pixel.
NativeStack(n, ramp, y, x, c1, a, c2) ==
    MkArray(<<RmH, RmW, n>>, LAMBDA i, j, k :
        (IF ramp THEN HeatValue(i, j, k) ELSE 0)
        + (IF i = y /\ j = x /\ k = c1 THEN 4 * a ELSE 0)
        + (IF i = y /\ j = x /\ k = c2 THEN 4 ELSE 0))

\* native is one of the stacks tried.
ChooseNative ==
    \E n \in ChannelCounts, ramp \in BOOLEAN, y \in 0..(RmH - 1), x \in 0..(RmW - 1), a \in 0..MaxAmp :
        \E c1, c2 \in 0..(n - 1) :
            native = NativeStack(n, ramp, y, x, c1, a, c2)

RunIdle ==
    /\ pc = "idle"
    /\ image_name = None /\ out_name_provided = None /\ out_name = None
    /\ visualize = FALSE /\ folder_image_suffix = <<>>
    /\ dirs = {} /\ listing = {}
    /\ process_folder = FALSE /\ images = <<>> /\ idx = 0 /\ fname = None
    /\ ndim = 0 /\ image = NoArray /\ pose = NoPose /\ unary_maps = NoArray
    /\ um2 = NoArray /\ visim = NoArray
    /\ written = {} /\ log = <<>> /\ err = ""

run == <<pc, out_name_provided, visualize, folder_image_suffix, dirs, listing,
         process_folder, images, idx, image_name, out_name, fname, ndim, image,
         pose, unary_maps, um2, visim, written, log, err>>

InitRemap ==
    /\ RunIdle
    /\ rpc = "in" /\ ChooseNative /\ remapped = NoRemap
    /\ cpc = "idle" /\ canvas = NoArray /\ call = NoCall /\ result = NoResult

\* Lines 146-162 applied to the stack.
ApplyRemap ==
    /\ rpc = "in"
    /\ remapped' = Remap(native)
    /\ rpc' = "out"
    /\ UNCHANGED <<native, cpc, canvas, call, result>>
    /\ UNCHANGED run

NextRemap == ApplyRemap

SpecRemap == InitRemap /\ [][NextRemap]_vars

(***************************************************************************)
(* _npcircle on its own: an image and the arguments are chosen, the call   *)
(* is made.                                                                *)
(***************************************************************************)
Canvases == { Zeros(<<CvH, CvW, 3>>), MkArray(<<CvH, CvW, 3>>, Pixel) }

\* Centers from beyond the left and upper borders to beyond the right and
\* lower ones, radii from 1 to MaxRadius, all in halves.
Calls ==
    [cx : (-2 * CvW)..(2 * (CvW + MaxRadius) + 1),
     cy : (-2 * CvH)..(2 * (CvH + MaxRadius) + 1),
     radius : 2..(2 * MaxRadius + 1),
     color : {Colors[1], Colors[4]},
     transparency : {0, 1}]

InitCircle ==
    /\ RunIdle
    /\ rpc = "idle" /\ native = NoArray /\ remapped = NoRemap
    /\ cpc = "ready" /\ canvas \in Canvases /\ call \in Calls /\ result = NoResult

\* _npcircle(canvas, cx, cy, radius, color, transparency)
Draw ==
    /\ cpc = "ready"
    /\ result' = Npcircle(canvas, call.cx, call.cy, call.radius, call.color, call.transparency)
    /\ cpc' = "drawn"
    /\ UNCHANGED <<rpc, native, remapped, canvas, call>>
    /\ UNCHANGED run

NextCircle == Draw

SpecCircle == InitCircle /\ [][NextCircle]_vars

(***************************************************************************)
(* The properties.                                                         *)
(***************************************************************************)
Pixels(a) == (0..(a.shape[1] - 1)) \X (0..(a.shape[2] - 1))

\* C1: for a stack of exactly 14 channels the remap raises nothing and gives
\* exactly 16 channels; at every pixel channels 0-5 are the native channels
\* 0-5, channels 8-15 the native channels 6-13, channel 6 is the mean of the
\* native channels 2 and 3, and channel 7 is (2 * pelvis + native 12 +
\* native 13) / 4.
C1_RemapIsReference ==
    (rpc = "out" /\ native.shape[3] = 14) =>
        /\ ~remapped.err
        /\ remapped.um2.shape = <<native.shape[1], native.shape[2], 16>>
        /\ \A p \in Pixels(native) :
              /\ Len(remapped.um2.data[p[1] + 1][p[2] + 1]) = 16
              /\ \A c \in 0..5 : At(remapped.um2, p[1], p[2], c) = At(native, p[1], p[2], c)
              /\ \A c \in 8..15 : At(remapped.um2, p[1], p[2], c) = At(native, p[1], p[2], c - 2)
              /\ 2 * At(remapped.um2, p[1], p[2], 6)
                    = At(native, p[1], p[2], 2) + At(native, p[1], p[2], 3)
              /\ 4 * At(remapped.um2, p[1], p[2], 7)
                    = 2 * At(remapped.um2, p[1], p[2], 6)
                      + At(native, p[1], p[2], 12) + At(native, p[1], p[2], 13)

\* A 14-channel stack has been remapped, with hips that differ and a thorax
\* that is not zero at some pixel.
C1_Witness ==
    /\ rpc = "out"
    /\ native.shape[3] = 14
    /\ ~remapped.err
    /\ \E p \in Pixels(native) :
          /\ At(native, p[1], p[2], 2) # At(native, p[1], p[2], 3)
          /\ At(native, p[1], p[2], 12) # At(native, p[1], p[2], 13)
          /\ At(remapped.um2, p[1], p[2], 7) > 0

\* C2: the thorax is the weighted mean of the pelvis (twice) and the two
\* shoulder channels of the remapped stack: at every pixel of a remapped
\* 14-channel stack, output 7 = (2 * output 6 + output 12 + output 13) / 4,
\* outputs 12 and 13 being RSho and LSho in the layout the source documents.
C2_ThoraxFromShoulders ==
    (rpc = "out" /\ native.shape[3] = 14 /\ ~remapped.err) =>
        \A p \in Pixels(native) :
            4 * At(remapped.um2, p[1], p[2], 7)
                = 2 * At(remapped.um2, p[1], p[2], 6)
                  + At(remapped.um2, p[1], p[2], 12) + At(remapped.um2, p[1], p[2], 13)

\* The last component of a path: what follows its last slash.
LastComponent(p) ==
    CHOOSE t \in { Sub(p, k, Len(p)) : k \in 1..(Len(p) + 1) } :
        /\ \A i \in 1..Len(t) : t[i] # "/"
        /\ (Len(t) = Len(p) \/ p[Len(p) - Len(t)] = "/")

\* A directory's name, with the slash that ends it.
WithSlash(d) == IF d[Len(d)] = "/" THEN d ELSE d \o <<"/">>

\* The keypoint archive the naming policy gives an input.
ArchiveFor(img) ==
    IF out_name_provided = None THEN img \o PoseNpz
    ELSE WithSlash(out_name_provided) \o LastComponent(img) \o PoseNpz

\* C3: without an output path the keypoint archive of every processed input
\* is inputPath + "_pose.npz"; in a folder run with an output directory out
\* it is out/basename(inputPath) + "_pose.npz", and out exists before the
\* first image is processed.
C3_ArchiveNaming ==
    /\ (pc \in {"estimate", "savez", "h5", "vis"} /\ (out_name_provided = None \/ process_folder))
          => out_name = ArchiveFor(image_name)
    /\ \A r \in written :
          (r.kind = "npz" /\ (out_name_provided = None \/ process_folder))
              => r.path = ArchiveFor(r.src)
    /\ (process_folder /\ out_name_provided # None /\ log # <<>>)
          => NormDir(out_name_provided) \in dirs

\* A folder run with the output directory o has written the archive of d/a.p.
C3_Witness ==
    /\ process_folder
    /\ out_name_provided = <<"o">>
    /\ \E r \in written :
          /\ r.kind = "npz"
          /\ r.src = <<"d", "/", "a", ".", "p">>
          /\ r.path = <<"o", "/", "a", ".", "p">> \o PoseNpz

\* C4: the heatmap bundle of every processed input is written next to the
\* source image, at the input path with its extension replaced by .h5
\* (dirname(inputPath)/stem(inputPath) + ".h5"), whatever the output path.
C4_BundleNextToImage ==
    /\ fname # None => fname = SplitextRoot(image_name) \o DotH5
    /\ \A r \in written : r.kind = "h5" => r.path = SplitextRoot(r.src) \o DotH5

\* The center of a call, its radius and the disc around the center.
CenterX == IntOf(call.cx)
CenterY == IntOf(call.cy)
DiscRadius == IntOf(call.radius)
InDisc(i, j) ==
    (j - CenterX) * (j - CenterX) + (i - CenterY) * (i - CenterY) <= DiscRadius * DiscRadius

\* C5: a disc of radius r drawn with transparency 0 at a center whose
\* bounding box lies inside the image sets the pixel at offset (dx, dy) to
\* the color iff dx^2 + dy^2 <= r^2, the offsets +r included, and leaves
\* every other pixel unchanged.
C5_DiscIffWithinRadius ==
    (/\ cpc = "drawn"
     /\ call.transparency = 0
     /\ CenterX - DiscRadius >= 0 /\ CenterX + DiscRadius <= canvas.shape[2] - 1
     /\ CenterY - DiscRadius >= 0 /\ CenterY + DiscRadius <= canvas.shape[1] - 1) =>
        /\ ~result.err
        /\ \A ix \in Idx3(canvas.shape) :
              At(result.image, ix[1], ix[2], ix[3])
                  = IF InDisc(ix[1], ix[2]) THEN call.color[ix[3] + 1]
                    ELSE At(canvas, ix[1], ix[2], ix[3])

\* C6: whatever the center (near a border, outside the image, negative),
\* drawing raises no error and changes only pixels of the disc around the
\* center.
C6_NoErrorNoWrap ==
    cpc = "drawn" =>
        /\ ~result.err
        /\ \A ix \in Idx3(canvas.shape) :
              At(result.image, ix[1], ix[2], ix[3]) # At(canvas, ix[1], ix[2], ix[3])
                  => InDisc(ix[1], ix[2])

\* C7: with visualization on, the array handed to the rasterizer is the
\* loaded image, height x width x 3, with only its channel axis reversed
\* back; the axis swap made for the bundle does not reach it.
C7_PreviewArray ==
    visim # NoArray =>
        /\ visim.shape = <<ImgH, ImgW, 3>>
        /\ visim = ReverseLastAxis(LoadImage(Imread(ndim), ndim))

\* C8: a stack whose channel count is not 14 is rejected before anything is
\* built from it: the run never gets past the bundle with such a stack, and
\* no bundle file of the image exists.
C8_RejectsOtherChannelCounts ==
    /\ pc = "vis" => unary_maps.shape[3] = 14
    /\ \A r \in written :
          (r.kind = "h5" /\ r.src = image_name) => unary_maps.shape[3] = 14

\* The steps of one image, in order.
Steps == IF visualize THEN <<"load", "estimate", "savez", "h5", "vis">>
         ELSE <<"load", "estimate", "savez", "h5">>

\* The steps completed are a prefix of: all steps of image 1, then all steps
\* of image 2, and so on.
InOrder ==
    \A k \in 1..Len(log) :
        log[k] = <<Steps[((k - 1) % Len(Steps)) + 1], ((k - 1) \div Len(Steps)) + 1>>

Surfaced ==
    /\ err # "" <=> pc = "failed"
    /\ pc = "done" => Len(log) = Len(Steps) * Len(images)
    /\ Len(log) <= Len(Steps) * Len(images)

\* C9: the images are processed one after another; a failure of the
\* estimator or of a write is surfaced and ends the run: nothing is done
\* after it, and the run ends "done" only with every step of every image
\* completed.
C9_FailureStopsRun == [](InOrder /\ Surfaced) /\ [][pc # "failed"]_vars

\* The estimator failed on the second image of a run of two: the first
\* image is complete, the second has only been loaded.
C9_Witness ==
    /\ pc = "failed"
    /\ err = "estimate_pose"
    /\ Len(images) = 2
    /\ idx = 1
    /\ log[Len(log)] = <<"load", 2>>

\* C10: two distinct inputs of a run never share an output path: no file
\* written in full for one image is a file written in full for another.
C10_DisjointOutputs ==
    \A r1, r2 \in written :
        (r1.complete /\ r2.complete /\ r1.src # r2.src) => r1.path # r2.path

====
